---- MODULE Spec2Model ----
(***************************************************************************)
(* TodoList (src/src/client/components/TodoList.tsx): a React view over a  *)
(* remote todo service.  The view keeps one piece of local state,          *)
(* activeTab, reads the list through api.todo.getAll.useQuery and sends    *)
(* two mutations (api.todoStatus.update, api.todo.delete); each mutation's *)
(* onSuccess calls refetchTodos().                                         *)
(*                                                                         *)
(* The hooks are tRPC's wrappers of react-query, whose behaviour the       *)
(* component relies on:                                                    *)
(*  - query results are cached per input (here: per tab); `data` is the    *)
(*    cached result of the CURRENT input, undefined (so todos = []) when   *)
(*    that input has never been answered;                                  *)
(*  - a query has at most one fetch running; when the input changes the    *)
(*    query of the new input is fetched, unless one is already running,    *)
(*    which is then joined;                                                *)
(*  - refetch() fetches the query of the current input; when a fetch of    *)
(*    it is running it is cancelled and replaced if the query already has  *)
(*    data, and joined (no new request) if it has none yet;                *)
(*  - a failed fetch leaves the cached data in place;                      *)
(*  - every mutate() call sends its own request; mutations do not retry.   *)
(*                                                                         *)
(* Variables marked `history` record what has happened and are read by no  *)
(* step of the view; the properties at the end use them.                   *)
(*                                                                         *)
(* The service (the routers under src/server/api, not part of the          *)
(* sources at hand) is modelled from the interface the specification       *)
(* gives: listTodos(statuses), updateTodoStatus(id, status), deleteTodo.   *)
(***************************************************************************)
EXTENDS Naturals, FiniteSets, Bags

\* Bounds of the model: the todos the service starts with, the mutation
\* requests that can be unsettled at the same time, and the list requests
\* that can be in flight at the same time.
NumTodos == 1
MaxPending == 2
MaxFetching == 2

Ids == 1..NumTodos
Status == {"pending", "completed"}
Tabs == {"all", "pending", "completed"}

VARIABLES
  server,      \* the service's todos: id -> status, or "absent"
  activeTab,   \* useState, line 68
  cache,       \* react-query's cache: tab -> the last answered list
  fetch,       \* the running fetch of each tab's query
  muts,        \* the bag of unsettled mutation requests
  gone         \* history: ids whose delete succeeded and whose reload completed

vars == <<server, activeTab, cache, fetch, muts, gone>>

NoRows == [i \in Ids |-> "none"]

\* A query that was never answered: data is undefined.
NoData == [loaded |-> FALSE, rows |-> NoRows, fresh |-> FALSE]

\* History kept with a list request, for as long as its tab stays selected:
\* the mutation whose onSuccess issued it (kind, id), and, for a toggle that
\* was the only request for its todo since its click (clean), the status the
\* row was clicked in (shown).  kind "none": issued by mounting or by a tab
\* change, or followed no longer.
Nobody == [kind |-> "none", id |-> 0, shown |-> "none", clean |-> FALSE]

Idle == [stage |-> "idle", rows |-> NoRows, fresh |-> FALSE, by |-> Nobody]

\* A list request on its way to the service.
Sent(by) == [stage |-> "sent", rows |-> NoRows, fresh |-> FALSE, by |-> by]

\* Variant of Statuses: every tab asks for both statuses.
StatusesBoth(tab) == {"completed", "pending"}

\* line 77: the statuses input of the list query.
Statuses(tab) == IF tab = "all" THEN {"completed", "pending"} ELSE {tab}

\* line 76: `data: todos = []` -- the cached list of the current input.
Todos == cache[activeTab].rows

\* lines 150-195: one row per todo of the list.
Rendered == {i \in Ids : Todos[i] # "none"}

\* The service has changed: no list answered before now is current any more.
Aged(f, changed) ==
  IF changed THEN [k \in Tabs |-> [f[k] EXCEPT !.fresh = FALSE]] ELSE f

Requests == BagToSet(muts)

One(r) == SetToBag({r})

\* The bag with one copy of request r moved to `stage`.
Moved(r, stage) == (muts (-) One(r)) (+) One([r EXCEPT !.stage = stage])

Count(B, r) == IF r \in DOMAIN B THEN B[r] ELSE 0

\* History: a click on todo `id` ends the `clean` mark of every request for it.
Dirty(r, id) == IF r.id = id THEN [r EXCEPT !.clean = FALSE] ELSE r

DirtyBag(B, id) ==
  [r \in {Dirty(q, id) : q \in DOMAIN B} |->
     IF r.id = id
     THEN Count(B, r) + Count(B, [r EXCEPT !.clean = TRUE])
     ELSE B[r]]

DirtyIssuer(by, id) ==
  IF by.id = id THEN [by EXCEPT !.clean = FALSE, !.shown = "none"] ELSE by

DirtyFetch(id) ==
  [k \in Tabs |-> [fetch[k] EXCEPT !.by = DirtyIssuer(fetch[k].by, id)]]

\* History: the list requests are followed no longer.
Unfollowed(f) == [k \in Tabs |-> [f[k] EXCEPT !.by = Nobody]]

\* The bound on list requests in flight: a step that would start one more
\* waits until one of those running has settled.
Fetching == Cardinality({k \in Tabs : fetch[k].stage # "idle"})

CanFetch(k) == fetch[k].stage # "idle" \/ Fetching < MaxFetching

----------------------------------------------------------------------------
\* The service (modelled from the specification's interface, section 6).

\* listTodos(statuses): the todos whose status is in statuses.
GetAll(statuses) ==
  [i \in Ids |-> IF server[i] \in statuses THEN server[i] ELSE "none"]

\* updateTodoStatus(todoId, status); a todo the service no longer holds is
\* left alone.
UpdateStatus(id, status) ==
  IF server[id] = "absent" THEN server ELSE [server EXCEPT ![id] = status]

\* deleteTodo(todoId)
Delete(id) == [server EXCEPT ![id] = "absent"]

----------------------------------------------------------------------------
\* The view.

Init ==
  /\ server \in [Ids -> Status]
  /\ activeTab = "all"
  /\ cache = [k \in Tabs |-> NoData]
  /\ fetch = [k \in Tabs |-> IF k = "all" THEN Sent(Nobody) ELSE Idle]
  /\ muts = EmptyBag
  /\ gone = {}

\* lines 72-74: handleTabChange
HandleTabChange(value) == value

\* lines 76-78: the query observer moves to the query of the new input and
\* fetches it, joining the fetch of that query when one is running.
FetchOnInput(tab) ==
  IF fetch[tab].stage = "idle"
  THEN [fetch EXCEPT ![tab] = Sent(Nobody)]
  ELSE fetch

\* lines 110-114: Tabs.Root onValueChange, fired when the value changes.
SelectTab(value) ==
  /\ value # activeTab
  /\ CanFetch(value)
  /\ activeTab' = HandleTabChange(value)
  /\ fetch' = Unfollowed(FetchOnInput(activeTab'))
  /\ UNCHANGED <<server, cache, muts, gone>>

\* Variant of NextStatus: the toggle asks for the status the row already has.
NextStatusSame(todoId, status) == status

\* Variant of NextStatus: the toggle asks for the opposite of the status the
\* service holds.
NextStatusOfService(todoId, status) ==
  IF server[todoId] = "completed" THEN "pending" ELSE "completed"

\* line 92: the status a toggle asks for.
NextStatus(todoId, status) ==
  IF status = "completed" THEN "pending" ELSE "completed"

\* Variant of Mutate: a click is dropped while a request for the same todo
\* is unsettled.
MutateOnce(B, req) ==
  IF \E q \in DOMAIN B : q.id = req.id THEN B ELSE B (+) One(req)

\* lines 90 and 103: mutate() sends the request.
Mutate(B, req) == B (+) One(req)

\* History kept with a request: no other request for the same todo is
\* unsettled at the click.
Clean(id) == \A r \in Requests : r.id # id

\* lines 86-94 and 165-167: Checkbox onCheckedChange -> handleCheckboxChange
ToggleClick(id) ==
  /\ BagCardinality(muts) < MaxPending
  /\ id \in Rendered
  /\ muts' = Mutate(DirtyBag(muts, id),
                    [kind |-> "update", id |-> id,
                     status |-> NextStatus(id, Todos[id]),
                     shown |-> Todos[id], clean |-> Clean(id),
                     stage |-> "sent"])
  /\ fetch' = DirtyFetch(id)
  /\ UNCHANGED <<server, activeTab, cache, gone>>

\* lines 102-104 and 188: delete button onClick -> handleDelete
DeleteClick(id) ==
  /\ BagCardinality(muts) < MaxPending
  /\ id \in Rendered
  /\ muts' = Mutate(DirtyBag(muts, id),
                    [kind |-> "delete", id |-> id, status |-> "none",
                     shown |-> Todos[id], clean |-> Clean(id),
                     stage |-> "sent"])
  /\ fetch' = DirtyFetch(id)
  /\ UNCHANGED <<server, activeTab, cache, gone>>

\* The service applies an update request and answers success.
ServerUpdateOk(r) ==
  /\ r.kind = "update"
  /\ r.stage = "sent"
  /\ server' = UpdateStatus(r.id, r.status)
  /\ muts' = Moved(r, "ok")
  /\ cache' = Aged(cache, server' # server)
  /\ fetch' = Aged(fetch, server' # server)
  /\ UNCHANGED <<activeTab, gone>>

\* The service applies a delete request and answers success.
ServerDeleteOk(r) ==
  /\ r.kind = "delete"
  /\ r.stage = "sent"
  /\ server' = Delete(r.id)
  /\ muts' = Moved(r, "ok")
  /\ cache' = Aged(cache, server' # server)
  /\ fetch' = Aged(fetch, server' # server)
  /\ UNCHANGED <<activeTab, gone>>

\* The service answers a list request with its todos at that moment.
ServerList(k) ==
  /\ fetch[k].stage = "sent"
  /\ fetch' = [fetch EXCEPT ![k] = [stage |-> "answered",
                                    rows |-> GetAll(Statuses(k)),
                                    fresh |-> TRUE, by |-> fetch[k].by]]
  /\ UNCHANGED <<server, activeTab, cache, muts, gone>>

\* Variant of SetQueryData: one list for all tabs, the answer goes to the
\* tab now shown.
SetQueryDataActive(k, rows, fresh) ==
  [cache EXCEPT ![activeTab] =
     [loaded |-> TRUE, rows |-> rows, fresh |-> fresh]]

\* line 76: an answered list becomes the data of the query it was fetched
\* for.
SetQueryData(k, rows, fresh) ==
  [cache EXCEPT ![k] = [loaded |-> TRUE, rows |-> rows, fresh |-> fresh]]

\* Variant of TabAfterFetch: the tab follows the list that arrived.
TabOfFetch(k) == k

\* lines 68-78: a list response does not touch activeTab.
TabAfterFetch(k) == activeTab

\* lines 76-78: the list response arrives.
ListSuccess(k) ==
  /\ fetch[k].stage = "answered"
  /\ cache' = SetQueryData(k, fetch[k].rows, fetch[k].fresh)
  /\ fetch' = [fetch EXCEPT ![k] = Idle]
  /\ activeTab' = TabAfterFetch(k)
  /\ gone' = IF fetch[k].by.kind = "delete"
             THEN gone \cup {fetch[k].by.id} ELSE gone
  /\ UNCHANGED <<server, muts>>

\* lines 76-78: the list request fails; the cached list stays.
ListFailure(k) ==
  /\ fetch[k].stage \in {"sent", "answered"}
  /\ fetch' = [fetch EXCEPT ![k] = Idle]
  /\ UNCHANGED <<server, activeTab, cache, muts, gone>>

\* History: what the list request issued by the success of r is marked with.
Issuer(r) ==
  IF r.kind = "update" /\ r.clean
  THEN [kind |-> r.kind, id |-> r.id, shown |-> r.shown, clean |-> TRUE]
  ELSE [kind |-> r.kind, id |-> r.id, shown |-> "none", clean |-> FALSE]

\* lines 76, 82, 98: refetchTodos() fetches the query of the current input.
\* A running fetch of it is joined while the query has no data yet, and
\* cancelled and replaced otherwise.
RefetchTodos(r) ==
  IF fetch[activeTab].stage # "idle" /\ ~cache[activeTab].loaded
  THEN fetch
  ELSE [fetch EXCEPT ![activeTab] = Sent(Issuer(r))]

\* lines 81-83 and 97-99: onSuccess
OnSuccess(r) == RefetchTodos(r)

\* Variant of OnError: the reload is issued on every settled mutation.
OnErrorRefetch(r) == RefetchTodos(r)

\* lines 80-84 and 96-100: no onError, no onSettled.
OnError(r) == fetch

\* lines 80-84, 96-100: a mutation's success response arrives.
MutationSuccess(r) ==
  /\ r.stage = "ok"
  /\ CanFetch(activeTab)
  /\ muts' = muts (-) One(r)
  /\ fetch' = OnSuccess(r)
  /\ UNCHANGED <<server, activeTab, cache, gone>>

\* lines 80-84, 96-100: a mutation request fails: the service has applied
\* nothing, and the failure arrives.
MutationFailure(r) ==
  /\ r.stage = "sent"
  /\ muts' = muts (-) One(r)
  /\ fetch' = OnError(r)
  /\ UNCHANGED <<server, activeTab, cache, gone>>

\* The steps of the runs in which no request fails.
NextOk ==
  \/ \E value \in Tabs : SelectTab(value)
  \/ \E id \in Ids : ToggleClick(id)
  \/ \E id \in Ids : DeleteClick(id)
  \/ \E r \in Requests : ServerUpdateOk(r)
  \/ \E r \in Requests : ServerDeleteOk(r)
  \/ \E k \in Tabs : ServerList(k)
  \/ \E k \in Tabs : ListSuccess(k)
  \/ \E r \in Requests : MutationSuccess(r)

Next ==
  \/ \E value \in Tabs : SelectTab(value)
  \/ \E id \in Ids : ToggleClick(id)
  \/ \E id \in Ids : DeleteClick(id)
  \/ \E r \in Requests : ServerUpdateOk(r)
  \/ \E r \in Requests : ServerDeleteOk(r)
  \/ \E k \in Tabs : ServerList(k)
  \/ \E k \in Tabs : ListSuccess(k)
  \/ \E k \in Tabs : ListFailure(k)
  \/ \E r \in Requests : MutationSuccess(r)
  \/ \E r \in Requests : MutationFailure(r)

Spec == Init /\ [][Next]_vars

\* The runs in which every request settles successfully.
SpecOk == Init /\ [][NextOk]_vars

----------------------------------------------------------------------------
\* Properties.

\* The status set a filter implies.
Implied(tab) ==
  CASE tab = "all" -> {"pending", "completed"}
    [] tab = "pending" -> {"pending"}
    [] tab = "completed" -> {"completed"}

Opposite(status) == IF status = "pending" THEN "completed" ELSE "pending"

\* The service's todos matching a filter, as a list.
Matching(tab) ==
  [i \in Ids |-> IF server[i] \in Implied(tab) THEN server[i] ELSE "none"]

\* The requests a step has added to the bag, given the bag before it.
Added(before) ==
  {q \in BagToSet(muts') : Count(muts', q) > Count(before, q)}

\* The requests of a bag that the service has not handled yet.
SentCount(B) ==
  BagCardinality([q \in {x \in DOMAIN B : x.stage = "sent"} |-> B[q]])

\* C1: in every reachable state the status of every rendered row is in the
\* status set the active tab implies, also while the list request of a tab
\* just selected is still in flight.
C1_RowsMatchFilter == \A i \in Rendered : Todos[i] \in Implied(activeTab)

\* A tab was just selected: its first list request is in flight, and the
\* list of the tab shown before holds a completed todo.
C1_Witness ==
  /\ activeTab = "pending"
  /\ fetch["pending"].stage # "idle"
  /\ ~cache["pending"].loaded
  /\ \E i \in Ids : cache["all"].rows[i] = "completed"

\* C2 as stated: at every moment every rendered todo is one the service
\* holds now with the rendered status, and it matches the active filter.
C2_RowsAreCurrent ==
  \A i \in Rendered : server[i] = Todos[i] /\ Todos[i] \in Implied(activeTab)

\* C2, amended: every rendered todo is one the service holds now with the
\* rendered status, and matches the active filter, as long as the service has
\* applied no change since it answered the list that is rendered.
C2_RowsAreCurrentWhenFresh ==
  cache[activeTab].fresh => C2_RowsAreCurrent

\* The rendered list is current and not empty, while the list of another tab
\* has been overtaken by a change of the service.
C2_Witness ==
  /\ cache[activeTab].fresh
  /\ Rendered # {}
  /\ \E k \in Tabs : cache[k].loaded /\ ~cache[k].fresh

\* C3 as stated: when the reload issued by a toggle's success completes, the
\* todo is rendered with the opposite of the status it was clicked in,
\* whatever the active tab.
C3_ToggleShowsOpposite ==
  [][\A k \in Tabs :
       (ListSuccess(k) /\ fetch[k].by.kind = "update" /\ fetch[k].by.clean)
         => Todos'[fetch[k].by.id] = Opposite(fetch[k].by.shown)]_vars

\* C3, amended: when the reload issued by a toggle's success completes for
\* the tab that is active, the service still holds the todo, and no other
\* request for the todo was unsettled at the click or was clicked since, the
\* todo is rendered with the opposite status if the active tab admits that
\* status (always under `all`) and is not rendered otherwise.
C3_ToggleReloaded ==
  [][\A k \in Tabs :
       (/\ ListSuccess(k)
        /\ fetch[k].by.kind = "update"
        /\ fetch[k].by.clean
        /\ k = activeTab
        /\ server[fetch[k].by.id] # "absent")
         => Todos'[fetch[k].by.id] =
              IF Opposite(fetch[k].by.shown) \in Implied(k)
              THEN Opposite(fetch[k].by.shown)
              ELSE "none"]_vars

\* The reload of a toggle made under the pending tab has been answered and
\* is about to complete there.
C3_Witness ==
  /\ activeTab = "pending"
  /\ fetch["pending"].stage = "answered"
  /\ fetch["pending"].by.kind = "update"
  /\ fetch["pending"].by.clean
  /\ fetch["pending"].by.shown = "pending"
  /\ server[fetch["pending"].by.id] = "completed"

\* C4: once a delete has succeeded and the reload its success issued has
\* completed, the id is in the rendered list in no later state, whichever tab
\* is selected.
C4_DeletedStaysAbsent == \A i \in gone : i \notin Rendered

C6_SuccessReloads ==
  [][\A r \in Requests :
       MutationSuccess(r) => fetch'[activeTab] = Sent(Issuer(r))]_vars

\* C7: activeTab starts as `all`, is always one of the three tabs, and no
\* step other than selectTab changes it.
C7_TabOnlyBySelect ==
  /\ activeTab = "all"
  /\ [](activeTab \in Tabs)
  /\ [][activeTab' # activeTab => \E value \in Tabs : SelectTab(value)]_vars

\* Another tab is active, its list has arrived, and a mutation is unsettled.
C7_Witness ==
  /\ activeTab = "completed"
  /\ cache["completed"].loaded
  /\ Requests # {}

C9_DoubleToggleSameTarget ==
  /\ [][\A id \in Ids :
          ToggleClick(id) =>
            \A q \in Added(DirtyBag(muts, id)) :
              /\ q.status = Opposite(Todos[id])
              /\ \A r \in Requests :
                   (r.id = id /\ r.kind = "update" /\ r.shown = Todos[id])
                     => q.status = r.status]_vars
  /\ [][\A r \in Requests :
          (ServerUpdateOk(r) /\ server[r.id] # "absent") =>
            server'[r.id] = Opposite(r.shown)]_vars

\* Both toggles of a double click have been applied, the row is still
\* rendered as it was clicked, and the service holds the opposite status.
C9_Witness ==
  \E r, q \in Requests :
    /\ r.id = q.id /\ (r # q \/ muts[r] = 2)
    /\ r.kind = "update" /\ q.kind = "update"
    /\ r.stage = "ok" /\ q.stage = "ok"
    /\ q.status = r.status
    /\ r.shown = Todos[r.id] /\ q.shown = Todos[r.id]
    /\ server[r.id] = Opposite(Todos[r.id])

\* No request is unsettled or in flight.
Quiet == muts = EmptyBag /\ \A k \in Tabs : fetch[k].stage = "idle"

\* C10: when every request has settled successfully and nothing is left in
\* flight, the rendered list is exactly the service's todos matching the
\* active tab.
C10_QuietIsCurrent == Quiet => Todos = Matching(activeTab)

====
